---- MODULE Spec2Model ----
(***************************************************************************)
(* A model of mergo's deep merge (merge.go, mergo.go).                     *)
(*                                                                         *)
(* Go values are records tagged with their kind (k) and their type (t).    *)
(* Memory is a heap of objects: variables and pointees hold a value, a map *)
(* object holds its entries.  A reflect.Value is a "ref": either a         *)
(* location of the heap (addressable) or a detached copy of a value        *)
(* (not addressable), plus the read-only flag reflect sets on everything   *)
(* obtained through an unexported field.                                   *)
(*                                                                         *)
(* Slices are modelled by their elements: the code never writes an element *)
(* of a slice in place, and the inputs are taken to have no two slices     *)
(* sharing a backing array with spare capacity.                            *)
(***************************************************************************)
EXTENDS Integers, Sequences, FiniteSets, TLC

\* heap       the memory now; pre is the memory when the call was made
\* dstArg     the dst argument of the top-level call, srcArg its src argument
\* keyOrder   the order in which this run's MapKeys lists the keys of a map
\* overwrite  the mode of the call made (FALSE before any call)
\* err        how the call ended: "nil", an error's name, or "panic"/"overflow"
\* deep       the deepest recursion the call reached
\* pc         "ready" before the call, "done" after it
VARIABLES heap, pre, dstArg, srcArg, keyOrder, overwrite, err, deep, pc

vars == <<heap, pre, dstArg, srcArg, keyOrder, overwrite, err, deep, pc>>

(* ------------------------------ bounds -------------------------------- *)

\* Integer scalars range over 0..MaxVal (0 is the empty value).
MaxVal == 2
\* Slices of the inputs have at most MaxLen elements.
MaxLen == 2
\* Number of list nodes in the heap of the linked-list inputs.
NumNodes == 3
\* Recursion depth at which a call is taken to have exhausted the stack.
MaxDepth == 10

\* The keys maps are built from, and the non-empty string scalars.
Keys == {"a", "b"}
Strs == {"", "x"}

(* ------------------------------ values -------------------------------- *)

IntV(n) == [k |-> "int", t |-> "int", n |-> n]
StrV(s) == [k |-> "string", t |-> "string", s |-> s]
PtrV(t, a) == [k |-> "ptr", t |-> t, a |-> a]
MapV(t, a) == [k |-> "map", t |-> t, a |-> a]
SliceV(t, e) == [k |-> "slice", t |-> t, e |-> e]
StructV(t, f) == [k |-> "struct", t |-> t, f |-> f]
\* The nil interface holds NilV; a zero reflect.Value is InvalidV.
NilV == [k |-> "nil", t |-> "nil"]
InvalidV == [k |-> "invalid", t |-> "invalid"]
IfaceV(v) == [k |-> "iface", t |-> "interface{}", v |-> v]
\* A map object of the heap: the entries a map value refers to.
MapObj(t, m) == [k |-> "mapobj", t |-> t, m |-> m]

\* The declared field order of the record types (mergo_test.go).
Fields(t) ==
    CASE t = "simpleTest" -> <<"Value">>
      [] t = "complexTest" -> <<"St", "sz", "ID">>
      [] t = "pointerTest" -> <<"C">>
      [] t = "sliceTest" -> <<"S">>
      [] t = "list" -> <<"Next">>
      [] t = "hidden" -> <<"p", "m">>
      [] t = "boxedTest" -> <<"Value", "I", "ID">>
      [] t = "simpleNested" -> <<"A">>
      [] OTHER -> <<>>

\* Go exports a field whose name starts with an upper-case letter.
IsExported(name) == name \notin {"sz", "p", "m"}

(* ---------------------------- reflect.Value --------------------------- *)

Loc(a, p, ro) == [loc |-> TRUE, a |-> a, p |-> p, v |-> InvalidV, ro |-> ro]
Tmp(v, ro) == [loc |-> FALSE, a |-> 0, p |-> <<>>, v |-> v, ro |-> ro]

RECURSIVE GetAt(_, _)
GetAt(v, p) == IF p = <<>> THEN v ELSE GetAt(v.f[Head(p)], Tail(p))

RECURSIVE PutAt(_, _, _)
PutAt(v, p, new) ==
    IF p = <<>> THEN new
    ELSE [v EXCEPT !.f = [@ EXCEPT ![Head(p)] = PutAt(@, Tail(p), new)]]

\* The value a reflect.Value holds now.
Val(h, r) == IF r.loc THEN GetAt(h[r.a], r.p) ELSE r.v

CanAddr(r) == r.loc
CanSet(r) == r.loc /\ ~r.ro

\* Value.Field(i): a field of an addressable record is addressable, and
\* read-only once the path passes an unexported field.
Field(h, r, name) ==
    IF r.loc THEN Loc(r.a, Append(r.p, name), r.ro \/ ~IsExported(name))
    ELSE Tmp(Val(h, r).f[name], r.ro \/ ~IsExported(name))

\* Value.Elem(): the pointee of a pointer is addressable; the value an
\* interface holds is a copy; the Elem of nil is the zero Value.
Elem(h, r) ==
    LET v == Val(h, r)
    IN  IF v.k = "ptr"
        THEN IF v.a = 0 THEN Tmp(InvalidV, FALSE) ELSE Loc(v.a, <<>>, r.ro)
        ELSE IF v.v = NilV THEN Tmp(InvalidV, FALSE) ELSE Tmp(v.v, r.ro)

\* reflect.ValueOf(v.Interface()): unwraps an interface, drops the address.
Unbox(v) == IF v.k = "iface" THEN (IF v.v = NilV THEN InvalidV ELSE v.v) ELSE v

\* The entries of the map a map value refers to (none for the nil map).
Entries(h, v) == IF v.a = 0 THEN <<>> ELSE h[v.a].m

isEmptyValue(h, v) ==
    CASE v.k \in {"map"} -> DOMAIN Entries(h, v) = {}
      [] v.k = "slice" -> Len(v.e) = 0
      [] v.k = "string" -> v.s = ""
      [] v.k = "int" -> v.n = 0
      [] v.k = "iface" -> v.v = NilV
      [] v.k = "ptr" -> v.a = 0
      [] OTHER -> FALSE

(* ------------------------------ the engine ---------------------------- *)

\* The state one top-level call threads through its recursion: the heap,
\* the visited set, how the call has ended so far ("" while it runs on;
\* "mismatch" is the error of line 59, "panic" a run-time panic of reflect,
\* "overflow" a recursion deeper than MaxDepth), the deepest recursion seen
\* and the order in which MapKeys lists keys.
Start(h, order) == [h |-> h, vis |-> {}, err |-> "", deep |-> 0, order |-> order]

Fail(st, e) == [st EXCEPT !.err = e]

\* dst.Set(src): assignable dst, and src not obtained through an unexported
\* field (reflect panics otherwise).
Set(st, dst, src, v) ==
    IF ~CanSet(dst) \/ src.ro THEN Fail(st, "panic")
    ELSE [st EXCEPT !.h[dst.a] = PutAt(@, dst.p, v)]

\* A SetMapIndex that takes an empty element for no element.
SetMapIndexNonEmpty(st, dst, key, elem) ==
    LET mv == Val(st.h, dst)
        m == st.h[mv.a].m
    IN  IF dst.ro THEN Fail(st, "panic")
        ELSE IF isEmptyValue(st.h, elem) THEN st
        ELSE [st EXCEPT !.h[mv.a].m =
                 [x \in DOMAIN m \cup {key} |-> IF x = key THEN elem ELSE m[x]]]

\* dst.SetMapIndex(key, elem): panics on a map obtained through an
\* unexported field.
SetMapIndex(st, dst, key, elem) ==
    LET mv == Val(st.h, dst)
        m == st.h[mv.a].m
    IN  IF dst.ro THEN Fail(st, "panic")
        ELSE [st EXCEPT !.h[mv.a].m =
                 [x \in DOMAIN m \cup {key} |-> IF x = key THEN elem ELSE m[x]]]

\* An append that puts src's elements first.
AppendSliceFront(d, s) == [d EXCEPT !.e = s.e \o d.e]

\* reflect.AppendSlice(dst, src)
AppendSlice(d, s) == [d EXCEPT !.e = d.e \o s.e]

hard(k) == k \in {"map", "slice", "ptr", "iface"}

\* The visit of merge.go:82: both addresses and the type.
visit(dst, src, typ) == [a1 |-> <<dst.a, dst.p>>, a2 |-> <<src.a, src.p>>, typ |-> typ]

\* reflect.New(t).Elem(): a fresh addressable variable.
NewAddr(h) == CHOOSE a \in 1..(Cardinality(DOMAIN h) + 1) : a \notin DOMAIN h

\* src.MapKeys(), in the order this run lists them.
MapKeys(st, v) == SelectSeq(st.order, LAMBDA x : x \in DOMAIN Entries(st.h, v))

RECURSIVE deepMerge(_, _, _, _, _)
RECURSIVE mergeStructs(_, _, _, _, _, _)
RECURSIVE mergeMaps(_, _, _, _, _, _)

\* merge.go:22-29.  i is the loop's index (1-based here).
mergeStructs(st, dst, src, i, depth, ow) ==
    LET names == Fields(Val(st.h, dst).t)
    IN  IF i > Len(names) THEN st
        ELSE LET st2 == deepMerge(st, Field(st.h, dst, names[i]),
                                  Field(st.h, src, names[i]), depth + 1, ow)
             IN  IF st2.err # "" THEN st2
                 ELSE mergeStructs(st2, dst, src, i + 1, depth, ow)

\* merge.go:31-56.  keys is what is left of src.MapKeys().
mergeMaps(st, dst, src, keys, depth, ow) ==
    IF keys = <<>> THEN st
    ELSE
    LET key == Head(keys)
        dm == Entries(st.h, Val(st.h, dst))
        srcElement == Entries(st.h, Val(st.h, src))[key]
        \* which way this iteration goes
        way == IF key \notin DOMAIN dm \/ isEmptyValue(st.h, dm[key]) \/ ow
               THEN "set"                               \* lines 36-39
               ELSE IF src.ro THEN "skip"                \* !srcElement.CanInterface()
               ELSE IF dst.ro THEN "panic"               \* dstElement.Interface()
               ELSE "merge"                              \* lines 44-54
        dstElement == Unbox(dm[key])
        a == NewAddr(st.h)
        d == Loc(a, <<>>, FALSE)
        st1 == [st EXCEPT !.h = (a :> dstElement) @@ st.h]
        st2 == CASE way = "set" -> SetMapIndex(st, dst, key, srcElement)
                 [] way = "skip" -> st
                 [] way = "panic" -> Fail(st, "panic")
                 [] way = "merge" ->
                      deepMerge(st1, d, Tmp(Unbox(srcElement), FALSE), depth + 1, ow)
        merged == IF dm[key].k = "iface" THEN IfaceV(st2.h[a]) ELSE st2.h[a]
        \* d goes out of scope after this iteration
        st3 == [st2 EXCEPT !.h = [x \in DOMAIN st2.h \ {a} |-> st2.h[x]]]
        \* the nested merge's error is dropped (lines 50-52), a panic is not
        st4 == IF st2.err \in {"panic", "overflow"} THEN st3
               ELSE IF st2.err # "" THEN [st3 EXCEPT !.err = ""]
               ELSE SetMapIndex(st3, dst, key, merged)
    IN  IF st2.err # "" /\ way # "merge" THEN st2
        ELSE IF way # "merge" THEN mergeMaps(st2, dst, src, Tail(keys), depth, ow)
        ELSE IF st4.err # "" THEN st4
        ELSE mergeMaps(st4, dst, src, Tail(keys), depth, ow)

\* A descent that leaves what dst refers to alone.
mergeElemsSkipped(st, dst, src, depth, ow) == st

\* merge.go:109: the descent into what a pointer or an interface holds.
mergeElems(st, dst, src, depth, ow) ==
    deepMerge(st, Elem(st.h, dst), Elem(st.h, src), depth + 1, ow)

\* A fallback that replaces dst whatever the mode.
fallbackAlways(st, dst, src, ow) ==
    IF CanSet(dst) THEN Set(st, dst, src, Val(st.h, src)) ELSE st

\* A fallback that never replaces dst.
fallbackNever(st, dst, src, ow) == st

\* merge.go:117-120: the wholesale replacement after the switch.
fallback(st, dst, src, ow) ==
    IF CanSet(dst) /\ ow THEN Set(st, dst, src, Val(st.h, src)) ELSE st

\* merge.go:91-116: what deepMerge does once past the type check and the
\* cycle guard.
mergeBody(st, dst, src, depth, ow) ==
    LET d == Val(st.h, dst)
        s == Val(st.h, src)
        \* the first of the code's tests that holds
        way == IF isEmptyValue(st.h, s) THEN "return"            \* line 91
               ELSE IF isEmptyValue(st.h, d) THEN "fill"         \* lines 95-100
               ELSE IF d.k = "struct" THEN "struct"              \* lines 103-104
               ELSE IF d.k = "map" THEN "map"                    \* lines 105-106
               ELSE IF d.k \in {"ptr", "iface"} /\ ~ow THEN "elem"          \* 107-110
               ELSE IF d.k = "slice" /\ CanSet(dst) /\ ~ow THEN "append"    \* 111-115
               ELSE "fallback"                                   \* lines 117-120
    IN  CASE way = "return" -> st
          [] way = "fill" -> IF CanSet(dst) THEN Set(st, dst, src, s) ELSE st
          [] way = "struct" -> mergeStructs(st, dst, src, 1, depth, ow)
          [] way = "map" -> mergeMaps(st, dst, src, MapKeys(st, s), depth, ow)
          [] way = "elem" -> mergeElems(st, dst, src, depth, ow)
          [] way = "append" -> Set(st, dst, src, AppendSlice(d, s))
          [] way = "fallback" -> fallback(st, dst, src, ow)

\* A cycle guard that never recognises a pair.
seenNever(st, dst, src) == FALSE

\* merge.go:74-89: the cycle guard.  TRUE when the pair was seen before.
seen(st, dst, src) ==
    /\ CanAddr(dst) /\ CanAddr(src) /\ hard(Val(st.h, dst).k)
    /\ visit(dst, src, Val(st.h, dst).t) \in st.vis

remember(st, dst, src) ==
    IF CanAddr(dst) /\ CanAddr(src) /\ hard(Val(st.h, dst).k)
    THEN [st EXCEPT !.vis = @ \cup {visit(dst, src, Val(st.h, dst).t)}]
    ELSE st

\* merge.go:21-121
deepMerge(st, dst, src, depth, ow) ==
    LET d == Val(st.h, dst)
        s == Val(st.h, src)
        st0 == [st EXCEPT !.deep = IF depth > @ THEN depth ELSE @]
        \* how the call ends before line 91, "" if it gets there
        early == IF depth > MaxDepth THEN "overflow"
                 \* src.Type() of the zero Value panics
                 ELSE IF s.k = "invalid" \/ d.k = "invalid" THEN "panic"
                 ELSE IF s.t # d.t THEN "mismatch"
                 ELSE IF seen(st0, dst, src) THEN "seen"
                 ELSE ""
    IN  CASE early = "" -> mergeBody(remember(st0, dst, src), dst, src, depth, ow)
          [] early = "seen" -> st0
          [] early \notin {"", "seen"} -> Fail(st0, early)

(* --------------------------- the entry points -------------------------- *)

\* mergo.go:55-71.  dst and src are the arguments as passed (interface{}).
resolveValues(h, dst, src) ==
    IF dst = NilV \/ src = NilV
    THEN [err |-> "ErrNilArguments", vDst |-> Tmp(InvalidV, FALSE), vSrc |-> Tmp(InvalidV, FALSE)]
    ELSE IF dst.k # "ptr"   \* reflect.ValueOf(dst).Elem() of a non-pointer
    THEN [err |-> "panic", vDst |-> Tmp(InvalidV, FALSE), vSrc |-> Tmp(InvalidV, FALSE)]
    ELSE LET vDst == Elem(h, Tmp(dst, FALSE))
         IN  IF Val(h, vDst).k \notin {"struct", "map"}
             THEN [err |-> "ErrNotSupported", vDst |-> vDst, vSrc |-> Tmp(InvalidV, FALSE)]
             ELSE [err |-> "nil", vDst |-> vDst,
                   vSrc |-> IF src.k = "ptr" THEN Elem(h, Tmp(src, FALSE)) ELSE Tmp(src, FALSE)]

\* A merge that leaves the comparison of the types to deepMerge.
mergeUnchecked(h, dst, src, ow, order) ==
    LET r == resolveValues(h, dst, src)
        st == Start(h, order)
    IN  IF r.err # "nil" THEN Fail(st, r.err)
        ELSE IF Val(h, r.vSrc).k = "invalid" THEN Fail(st, "panic")
        ELSE LET out == deepMerge(st, r.vDst, r.vSrc, 0, ow)
             IN  IF out.err = "" THEN Fail(out, "nil") ELSE out

\* A merge that hands deepMerge its arguments exchanged.
mergeSwapped(h, dst, src, ow, order) ==
    LET r == resolveValues(h, dst, src)
        st == Start(h, order)
    IN  IF r.err # "nil" THEN Fail(st, r.err)
        ELSE IF Val(h, r.vSrc).k = "invalid" THEN Fail(st, "panic")
        ELSE IF Val(h, r.vDst).t # Val(h, r.vSrc).t THEN Fail(st, "ErrDifferentArgumentsTypes")
        ELSE LET out == deepMerge(st, r.vSrc, r.vDst, 0, ow)
             IN  IF out.err = "" THEN Fail(out, "nil") ELSE out

\* merge.go:137-149
merge(h, dst, src, ow, order) ==
    LET r == resolveValues(h, dst, src)
        st == Start(h, order)
    IN  IF r.err # "nil" THEN Fail(st, r.err)
        \* vSrc.Type() of the zero Value (src a nil pointer) panics
        ELSE IF Val(h, r.vSrc).k = "invalid" THEN Fail(st, "panic")
        ELSE IF Val(h, r.vDst).t # Val(h, r.vSrc).t THEN Fail(st, "ErrDifferentArgumentsTypes")
        ELSE LET out == deepMerge(st, r.vDst, r.vSrc, 0, ow)
             IN  IF out.err = "" THEN Fail(out, "nil") ELSE out

\* One top-level call, run to its end.
Call(ow) ==
    /\ pc = "ready"
    /\ LET out == merge(heap, dstArg, srcArg, ow, keyOrder)
       IN  /\ heap' = out.h
           /\ err' = out.err
           /\ deep' = out.deep
    /\ overwrite' = ow
    /\ pc' = "done"
    /\ UNCHANGED <<pre, dstArg, srcArg, keyOrder>>

\* merge.go:127-129
Merge == Call(FALSE)

\* merge.go:133-135
MergeWithOverwrite == Call(TRUE)

Next == Merge \/ MergeWithOverwrite

(* ------------------------------- inputs -------------------------------- *)

Ints == 0..MaxVal

simpleTest(n) == StructV("simpleTest", [Value |-> IntV(n)])
complexTest(n, sz, id) ==
    StructV("complexTest", [St |-> simpleTest(n), sz |-> IntV(sz), ID |-> StrV(id)])

\* Every order MapKeys may list the keys in.
Orders ==
    {o \in [1..Cardinality(Keys) -> Keys] : \A i, j \in DOMAIN o : i # j => o[i] # o[j]}
FirstOrder == CHOOSE o \in Orders : TRUE

\* The call has not been made.
Ready ==
    /\ pre = heap
    /\ overwrite = FALSE
    /\ err = "none"
    /\ deep = 0
    /\ pc = "ready"

\* src is passed as the value of variable a or as a pointer to it.
Passed(h, t, a) == {h[a], PtrV(t, a)}

\* Two complexTest records (TestComplexStruct).
InitComplex ==
    /\ \E d, s \in {complexTest(n, z, i) : n \in Ints, z \in Ints, i \in Strs} :
          heap = (1 :> d) @@ (2 :> s)
    /\ dstArg = PtrV("*complexTest", 1)
    /\ srcArg \in Passed(heap, "*complexTest", 2)
    /\ keyOrder = FirstOrder
    /\ Ready

\* A record whose fields are all internal: a pointer and a map
\* (TestUnexportedProperty has the map).
hidden(pa, ma) ==
    StructV("hidden", [p |-> PtrV("*simpleTest", pa), m |-> MapV("mss", ma)])

\* Two hidden records, each with its own pointee (3, 4) and map (5, 6).
InitHidden ==
    /\ \E dp \in {0, 3}, sp \in {0, 4}, dm \in {0, 5}, sm \in {0, 6},
          dv, sv \in Ints, dk, sk \in SUBSET Keys :
          /\ dp = 0 => dv = 0
          /\ sp = 0 => sv = 0
          /\ dm = 0 => dk = {}
          /\ sm = 0 => sk = {}
          /\ heap = (1 :> hidden(dp, dm)) @@ (2 :> hidden(sp, sm))
                    @@ (3 :> simpleTest(dv)) @@ (4 :> simpleTest(sv))
                    @@ (5 :> MapObj("mss", [x \in dk |-> simpleTest(1)]))
                    @@ (6 :> MapObj("mss", [x \in sk |-> simpleTest(MaxVal)]))
    /\ dstArg = PtrV("*hidden", 1)
    /\ srcArg \in Passed(heap, "*hidden", 2)
    /\ keyOrder = FirstOrder
    /\ Ready

\* The entries of the maps: mss is map[string]simpleTest (TestMaps), mii is
\* map[interface{}]interface{} (TestMapZeroValues).
MssEntries == {simpleTest(n) : n \in Ints}
MiiEntries ==
    {IfaceV(NilV)} \cup {IfaceV(IntV(n)) : n \in Ints} \cup {IfaceV(StrV(x)) : x \in Strs}

\* Every map over a subset of Keys with entries in E.
MapsOver(E) == UNION {[ks -> E] : ks \in SUBSET Keys}

\* dst is map variable 1 and src map variable 2, each nil or referring to
\* its own map object (3, 4).
InitMapsOf(t, E) ==
    /\ \E da \in {0, 3}, sa \in {0, 4}, dmap, smap \in MapsOver(E) :
          /\ da = 0 => dmap = <<>>
          /\ sa = 0 => smap = <<>>
          /\ heap = (1 :> MapV(t, da)) @@ (2 :> MapV(t, sa))
                    @@ (3 :> MapObj(t, dmap)) @@ (4 :> MapObj(t, smap))
    /\ dstArg = PtrV("*" \o t, 1)
    /\ keyOrder \in Orders
    /\ Ready

InitMss == InitMapsOf("mss", MssEntries) /\ srcArg \in Passed(heap, "*mss", 2)
InitMii == InitMapsOf("mii", MiiEntries) /\ srcArg = heap[2]

InitMaps == InitMss \/ InitMii

\* Every sequence of at most MaxLen elements of E.
SeqsOver(E) == UNION {[1..n -> E] : n \in 0..MaxLen}

\* []int, and is = []interface{} holding boxed ints (TestSlicesInMap).
IntSlices == {SliceV("[]int", e) : e \in SeqsOver({IntV(n) : n \in 1..MaxVal})}
BoxedSlices ==
    {IfaceV(SliceV("is", e)) : e \in SeqsOver({IfaceV(IntV(n)) : n \in 1..MaxVal})}

sliceTest(s) == StructV("sliceTest", [S |-> s])

\* Two sliceTest records (TestSliceStruct).
InitSliceTest ==
    /\ \E d, s \in IntSlices : heap = (1 :> sliceTest(d)) @@ (2 :> sliceTest(s))
    /\ dstArg = PtrV("*sliceTest", 1)
    /\ srcArg \in Passed(heap, "*sliceTest", 2)
    /\ keyOrder = FirstOrder
    /\ Ready

\* Two maps of slices, msl = map[string][]int or mii with boxed slices:
\* key "a" holds any slice or is absent, key "b" one fixed slice or is absent.
InitSliceMapsOf(t, E, one) ==
    /\ \E dmap, smap \in {m \in MapsOver(E) : "b" \in DOMAIN m => m["b"] = one} :
          heap = (1 :> MapV(t, 3)) @@ (2 :> MapV(t, 4))
                 @@ (3 :> MapObj(t, dmap)) @@ (4 :> MapObj(t, smap))
    /\ dstArg = PtrV("*" \o t, 1)
    /\ srcArg = heap[2]
    /\ keyOrder \in Orders
    /\ Ready

InitSlices ==
    \/ InitSliceTest
    \/ InitSliceMapsOf("msl", IntSlices, SliceV("[]int", <<IntV(1)>>))
    \/ InitSliceMapsOf("mii", BoxedSlices, IfaceV(SliceV("is", <<IfaceV(IntV(1))>>)))

pointerTest(a) == StructV("pointerTest", [C |-> PtrV("*simpleTest", a)])

\* Two pointerTest records whose pointers are nil or refer to one of two
\* simpleTest objects (3, 4), possibly the same one (TestPointerStruct).
InitPointers ==
    /\ \E dc, sc \in {0, 3, 4}, v3, v4 \in Ints :
          heap = (1 :> pointerTest(dc)) @@ (2 :> pointerTest(sc))
                 @@ (3 :> simpleTest(v3)) @@ (4 :> simpleTest(v4))
    /\ dstArg = PtrV("*pointerTest", 1)
    /\ srcArg \in Passed(heap, "*pointerTest", 2)
    /\ keyOrder = FirstOrder
    /\ Ready

\* A list node: type list struct{ Next *list } of the tests.
list(next) == StructV("list", [Next |-> PtrV("*list", next)])

Nodes == 1..NumNodes

\* A heap of NumNodes list nodes linked in every way (chains, cycles, nodes
\* shared by dst and src); dst is node 1, src is node 1 or 2, passed by
\* value or by pointer (TestCircular...).
InitLists ==
    /\ \E next \in [Nodes -> {0} \cup Nodes] :
          heap = [a \in Nodes |-> list(next[a])]
    /\ dstArg = PtrV("*list", 1)
    /\ \E s \in {1, 2} : srcArg \in Passed(heap, "*list", s)
    /\ keyOrder = FirstOrder
    /\ Ready

\* The arguments a caller may pass at the top level: nil, a scalar, a
\* record, or a pointer to a variable holding an int (1), a simpleTest (2)
\* or a complexTest (3) (TestNil, TestDifferentTypes).
InitTop ==
    /\ \E n, m \in Ints :
          heap = (1 :> IntV(n)) @@ (2 :> simpleTest(m)) @@ (3 :> complexTest(m, n, "x"))
    /\ dstArg \in {NilV, PtrV("*int", 1), PtrV("*simpleTest", 2),
                   PtrV("*complexTest", 3), PtrV("*simpleTest", 0)}
    /\ srcArg \in {NilV, StrV("x"), PtrV("*int", 1), PtrV("*simpleTest", 2),
                   PtrV("*simpleTest", 0)}
                  \cup {IntV(n) : n \in Ints} \cup {simpleTest(m) : m \in Ints}
    /\ keyOrder = FirstOrder
    /\ Ready

\* A record with an interface-typed field between two scalars.
boxedTest(n, i, id) ==
    StructV("boxedTest", [Value |-> IntV(n), I |-> i, ID |-> StrV(id)])

\* What an interface{} field may hold: nil, an int or a string.
Boxes == {IfaceV(NilV)} \cup {IfaceV(IntV(n)) : n \in Ints} \cup {IfaceV(StrV(x)) : x \in Strs}

\* Two boxedTest records.
InitBoxed ==
    /\ \E d, s \in {boxedTest(n, i, id) : n \in Ints, i \in Boxes, id \in Strs} :
          heap = (1 :> d) @@ (2 :> s)
    /\ dstArg = PtrV("*boxedTest", 1)
    /\ srcArg \in Passed(heap, "*boxedTest", 2)
    /\ keyOrder = FirstOrder
    /\ Ready

\* Boxed entries of every kind: nil, a scalar of two types, a sequence and
\* a map (the map at address a).
MixedEntries(a) ==
    {IfaceV(NilV), IfaceV(IntV(1)), IfaceV(StrV("x")),
     IfaceV(SliceV("is", <<IfaceV(IntV(1))>>)), IfaceV(MapV("mii", a))}

\* Two mii maps (objects 3 and 4) with mixed entries; the map an entry of
\* dst holds is object 5, the map an entry of src holds is object 6
\* (TestSlicesInMap, TestMapZeroValues).
InitMixed ==
    /\ \E dmap \in MapsOver(MixedEntries(5)), smap \in MapsOver(MixedEntries(6)),
          inner \in {("a" :> IfaceV(StrV("x"))), ("b" :> IfaceV(IntV(1)))} :
          heap = (1 :> MapV("mii", 3)) @@ (2 :> MapV("mii", 4))
                 @@ (3 :> MapObj("mii", dmap)) @@ (4 :> MapObj("mii", smap))
                 @@ (5 :> MapObj("mii", ("a" :> IfaceV(IntV(1)))))
                 @@ (6 :> MapObj("mii", inner))
    /\ dstArg = PtrV("*mii", 1)
    /\ srcArg = heap[2]
    /\ keyOrder \in Orders
    /\ Ready

simpleNested(n) == StructV("simpleNested", [A |-> IntV(n)])

\* Two maps of pointers, msp = map[string]*simpleNested
\* (TestNestedPtrValueInMap): the entries of dst (object 3) are nil or
\* point to objects 5 and 6, two keys possibly to the same one; the entries
\* of src (object 4) are nil or point to objects 7 and 8.
InitPtrMaps ==
    /\ \E dmap \in MapsOver({PtrV("*simpleNested", a) : a \in {0, 5, 6}}),
          smap \in MapsOver({PtrV("*simpleNested", a) : a \in {0, 7, 8}}),
          v5, v6 \in Ints :
          heap = (1 :> MapV("msp", 3)) @@ (2 :> MapV("msp", 4))
                 @@ (3 :> MapObj("msp", dmap)) @@ (4 :> MapObj("msp", smap))
                 @@ (5 :> simpleNested(v5)) @@ (6 :> simpleNested(v6))
                 @@ (7 :> simpleNested(1)) @@ (8 :> simpleNested(MaxVal))
    /\ dstArg = PtrV("*msp", 1)
    /\ srcArg = heap[2]
    /\ keyOrder \in Orders
    /\ Ready

\* The maps whose Merge may run over src's keys in either order.
InitOrders == InitPtrMaps \/ InitMii

\* Boxed entries that are a scalar or one of the two maps themselves.
SelfEntries ==
    {IfaceV(IntV(n)) : n \in Ints} \cup {IfaceV(MapV("mii", a)) : a \in {3, 4}}

\* Two mii maps (objects 3 and 4) whose entries may hold either map: a map
\* that contains itself, or dst and src containing each other.
InitSelf ==
    /\ \E dmap, smap \in MapsOver(SelfEntries) :
          heap = (1 :> MapV("mii", 3)) @@ (2 :> MapV("mii", 4))
                 @@ (3 :> MapObj("mii", dmap)) @@ (4 :> MapObj("mii", smap))
    /\ dstArg = PtrV("*mii", 1)
    /\ srcArg = heap[2]
    /\ keyOrder \in Orders
    /\ Ready

InitStructs == InitComplex

\* Records with internal fields of every kind: scalar, pointer and map.
InitPrivate == InitComplex \/ InitHidden

SpecStructs == InitStructs /\ [][Next]_vars
SpecPrivate == InitPrivate /\ [][Next]_vars
SpecMaps == InitMaps /\ [][Next]_vars
SpecSlices == InitSlices /\ [][Next]_vars
SpecPointers == InitPointers /\ [][Next]_vars
SpecLists == InitLists /\ [][Next]_vars
SpecTop == InitTop /\ [][Next]_vars
SpecBoxed == InitBoxed /\ [][Next]_vars
SpecMixed == InitMixed /\ [][Next]_vars
SpecOrders == InitOrders /\ [][Next]_vars
SpecSelf == InitSelf /\ [][Next]_vars

(* ------------------------- what the claims speak of -------------------- *)

\* The record or map dst points to, before and after the call, and what
\* src was when the call was made.
DstPre == pre[dstArg.a]
DstNow == heap[dstArg.a]
SrcPre == IF srcArg.k = "ptr" THEN pre[srcArg.a] ELSE srcArg

Done == pc = "done"
TwoOfAKind(k) ==
    /\ dstArg.k = "ptr" /\ dstArg.a # 0
    /\ DstPre.k = k /\ SrcPre.k = k /\ DstPre.t = SrcPre.t

\* The paths from a record to its scalar fields, through nested records.
RECURSIVE ScalarPaths(_)
ScalarPaths(v) ==
    IF v.k = "struct"
    THEN UNION {{<<f>> \o p : p \in ScalarPaths(v.f[f])} : f \in DOMAIN v.f}
    ELSE IF v.k \in {"int", "string"} THEN {<<>>} ELSE {}

ExportedPath(p) == \A i \in DOMAIN p : IsExported(p[i])

Empty(v) == isEmptyValue(pre, v)

\* C1 (emptiness fill law): after Merge on two records of one type, every
\* exported scalar field, at any nesting depth, holds src's value if it was
\* empty and src's is not, and what it held before otherwise.
FillLaw ==
    (Done /\ ~overwrite /\ TwoOfAKind("struct")) =>
        /\ err = "nil"
        /\ \A p \in ScalarPaths(DstPre) :
              ExportedPath(p) =>
                  GetAt(DstNow, p) =
                      IF Empty(GetAt(DstPre, p)) /\ ~Empty(GetAt(SrcPre, p))
                      THEN GetAt(SrcPre, p) ELSE GetAt(DstPre, p)

\* A nested field was filled while a non-empty field kept its value against
\* a different non-empty value of src.
FillLawWitness ==
    /\ Done /\ ~overwrite /\ TwoOfAKind("struct") /\ DstPre.t = "complexTest"
    /\ DstPre.f.St.f.Value.n = 0 /\ SrcPre.f.St.f.Value.n = MaxVal
    /\ DstNow.f.St.f.Value.n = MaxVal
    /\ DstPre.f.ID.s = "x" /\ SrcPre.f.ID.s = "" /\ DstNow.f.ID.s = "x"

\* C2 (overwrite law): after MergeWithOverwrite on two records of one type,
\* every exported scalar field, at any nesting depth, holds src's value if
\* src's is not empty, and what it held before if src's is empty.
OverwriteLaw ==
    (Done /\ overwrite /\ TwoOfAKind("struct")) =>
        /\ err = "nil"
        /\ \A p \in ScalarPaths(DstPre) :
              ExportedPath(p) =>
                  GetAt(DstNow, p) =
                      IF ~Empty(GetAt(SrcPre, p))
                      THEN GetAt(SrcPre, p) ELSE GetAt(DstPre, p)

\* A non-empty nested field was replaced by a different non-empty value
\* while an empty src field left dst's alone.
OverwriteLawWitness ==
    /\ Done /\ overwrite /\ TwoOfAKind("struct") /\ DstPre.t = "complexTest"
    /\ DstPre.f.St.f.Value.n = 1 /\ SrcPre.f.St.f.Value.n = MaxVal
    /\ DstNow.f.St.f.Value.n = MaxVal
    /\ DstPre.f.ID.s = "x" /\ SrcPre.f.ID.s = "" /\ DstNow.f.ID.s = "x"

\* The paths from a record to each of its fields, through nested records.
RECURSIVE FieldPaths(_)
FieldPaths(v) ==
    IF v.k = "struct"
    THEN UNION {{<<f>>} \cup {<<f>> \o p : p \in FieldPaths(v.f[f])} : f \in DOMAIN v.f}
    ELSE {}

\* The field at path p holds what it held, and so does what it refers to.
Kept(p) ==
    LET b == GetAt(DstPre, p)
    IN  /\ GetAt(DstNow, p) = b
        /\ (b.k \in {"ptr", "map"} /\ b.a # 0) => heap[b.a] = pre[b.a]

\* C7 (private-field isolation): Merge and MergeWithOverwrite on two records
\* of one type complete without a panic and leave every internal field of
\* dst, whatever its kind, as it was.
PrivateFieldIsolation ==
    (Done /\ TwoOfAKind("struct")) =>
        /\ err # "panic"
        /\ \A p \in FieldPaths(DstPre) : ~IsExported(p[Len(p)]) => Kept(p)

\* What the code does keep of C7: no internal field is ever written, also
\* by a call that panics.
InternalFieldsKept ==
    (Done /\ TwoOfAKind("struct")) =>
        \A p \in FieldPaths(DstPre) : ~IsExported(p[Len(p)]) => Kept(p)

\* TestUnexportedProperty: both internal maps hold the same keys, and Merge
\* does not panic.
SameKeysNoPanic ==
    (Done /\ ~overwrite /\ TwoOfAKind("struct") /\ DstPre.t = "hidden"
       /\ DstPre.f.m.a # 0 /\ SrcPre.f.m.a # 0
       /\ DOMAIN pre[SrcPre.f.m.a].m \subseteq DOMAIN pre[DstPre.f.m.a].m)
    => err = "nil"

\* The entries of dst's map before and after the call, and of src's before.
DstEntriesPre == Entries(pre, DstPre)
DstEntriesNow == Entries(heap, DstNow)
SrcEntriesPre == Entries(pre, SrcPre)

\* The zero value of a type (reflect's IsZero), boxed or not.
RECURSIVE IsZeroValue(_)
IsZeroValue(v) ==
    CASE v.k = "struct" -> \A f \in DOMAIN v.f : IsZeroValue(v.f[f])
      [] v.k = "iface" -> v.v = NilV \/ IsZeroValue(v.v)
      [] v.k = "slice" -> Len(v.e) = 0
      [] v.k = "string" -> v.s = ""
      [] v.k = "int" -> v.n = 0
      [] v.k \in {"ptr", "map"} -> v.a = 0
      [] OTHER -> FALSE

\* What C3 says a map holds after Merge.
UnionOf(dm, sm) ==
    [x \in DOMAIN dm \cup DOMAIN sm |->
        IF x \notin DOMAIN sm THEN dm[x]
        ELSE IF x \notin DOMAIN dm THEN sm[x]
        ELSE IF IsZeroValue(dm[x]) THEN sm[x] ELSE dm[x]]

\* C3 (map union): after Merge on two maps of one type, dst's keys are the
\* union of both key sets; an entry only in dst is kept, an entry only in
\* src is added, an empty (zero, also boxed zero) entry of dst becomes src's
\* and a non-empty entry of dst is kept.
MapUnion ==
    (Done /\ ~overwrite /\ TwoOfAKind("map")) =>
        DstEntriesNow = UnionOf(DstEntriesPre, SrcEntriesPre)

\* What the code does keep of C3: the union law on maps whose entries are
\* not boxed (TestMaps).
MapUnionUnboxed ==
    (Done /\ ~overwrite /\ TwoOfAKind("map") /\ DstPre.t = "mss") =>
        /\ err = "nil"
        /\ DstEntriesNow = UnionOf(DstEntriesPre, SrcEntriesPre)

\* ... and on boxed entries whenever no key holds a nil entry in src
\* against a non-nil one in dst, nor entries of two dynamic types.
Clash(x) ==
    /\ x \in DOMAIN DstEntriesPre /\ x \in DOMAIN SrcEntriesPre
    /\ DstEntriesPre[x].k = "iface" /\ DstEntriesPre[x].v # NilV
    /\ SrcEntriesPre[x].v.t # DstEntriesPre[x].v.t

MapUnionBoxed ==
    (Done /\ ~overwrite /\ TwoOfAKind("map") /\ \A x \in Keys : ~Clash(x)) =>
        /\ err = "nil"
        /\ DstEntriesNow = UnionOf(DstEntriesPre, SrcEntriesPre)

SliceOf(v) == IF v.k = "iface" THEN v.v ELSE v

NonEmptySlice(v) == SliceOf(v).k = "slice" /\ Len(SliceOf(v).e) > 0

\* C4 (sequence concatenation): after Merge, a sequence-valued record field
\* or map entry that was non-empty in dst and in src holds dst's elements
\* followed by src's, each in its order, none dropped.
SequenceConcat ==
    (Done /\ ~overwrite) =>
        /\ (TwoOfAKind("struct") /\ DstPre.t = "sliceTest"
              /\ NonEmptySlice(DstPre.f.S) /\ NonEmptySlice(SrcPre.f.S))
           => (err = "nil" /\ DstNow.f.S.e = DstPre.f.S.e \o SrcPre.f.S.e)
        /\ TwoOfAKind("map")
           => \A x \in DOMAIN DstEntriesPre \cap DOMAIN SrcEntriesPre :
                 (NonEmptySlice(DstEntriesPre[x]) /\ NonEmptySlice(SrcEntriesPre[x]))
                 => /\ err = "nil"
                    /\ DstEntriesNow[x].k = DstEntriesPre[x].k
                    /\ SliceOf(DstEntriesNow[x]).e =
                          SliceOf(DstEntriesPre[x]).e \o SliceOf(SrcEntriesPre[x]).e

\* dst = [1] and src = [1, MaxVal] gave [1, 1, MaxVal].
SequenceConcatWitness ==
    /\ Done /\ ~overwrite /\ TwoOfAKind("struct") /\ DstPre.t = "sliceTest"
    /\ DstPre.f.S.e = <<IntV(1)>> /\ SrcPre.f.S.e = <<IntV(1), IntV(MaxVal)>>
    /\ DstNow.f.S.e = <<IntV(1), IntV(1), IntV(MaxVal)>>

\* C5 (merging through references): after Merge, a pointer field that was
\* non-nil in dst and in src still refers to the object it referred to, not
\* to src's, and that object has been merged with src's pointee: each
\* scalar of it that was empty holds the non-empty value of src's pointee.
ThroughPointers ==
    (Done /\ ~overwrite /\ TwoOfAKind("struct") /\ DstPre.t = "pointerTest"
       /\ DstPre.f.C.a # 0 /\ SrcPre.f.C.a # 0) =>
        /\ err = "nil"
        /\ DstNow.f.C = DstPre.f.C
        /\ DstPre.f.C.a # SrcPre.f.C.a => DstNow.f.C.a # SrcPre.f.C.a
        /\ \A p \in ScalarPaths(pre[DstPre.f.C.a]) :
              GetAt(heap[DstPre.f.C.a], p) =
                  IF Empty(GetAt(pre[DstPre.f.C.a], p)) /\ ~Empty(GetAt(pre[SrcPre.f.C.a], p))
                  THEN GetAt(pre[SrcPre.f.C.a], p) ELSE GetAt(pre[DstPre.f.C.a], p)

\* dst's pointee was empty, src's was not, and dst's own pointee was filled.
ThroughPointersWitness ==
    /\ Done /\ ~overwrite /\ TwoOfAKind("struct") /\ DstPre.t = "pointerTest"
    /\ DstPre.f.C.a = 3 /\ SrcPre.f.C.a = 4
    /\ pre[3] = simpleTest(0) /\ pre[4] = simpleTest(MaxVal)
    /\ DstNow.f.C.a = 3 /\ heap[3] = simpleTest(MaxVal)

\* The objects reachable from object a (a itself included; none from nil).
RECURSIVE Closure(_, _)
Closure(h, as) ==
    LET more == as \cup ({h[a].f.Next.a : a \in as} \ {0})
    IN  IF more = as THEN as ELSE Closure(h, more)
Reach(h, a) == Closure(h, {a} \ {0})

\* Object a lies on a cycle of Next pointers.
OnCycle(h, a) == a \in Reach(h, h[a].f.Next.a)

TwoLists == TwoOfAKind("struct") /\ DstPre.t = "list"

\* The objects reachable from dst and from src when the call was made.
DstReach == Reach(pre, dstArg.a)
SrcReach == IF srcArg.k = "ptr" THEN Reach(pre, srcArg.a) ELSE Reach(pre, srcArg.f.Next.a)

\* C6 (cycle termination): Merge on two linked records, with cycles in dst,
\* in src or through both, ends after finitely many recursion steps (two
\* for each pair of nodes met along dst's and src's chains, and these heaps
\* have at most NumNodes + 1 such pairs) and returns no error.
CycleTermination ==
    (Done /\ ~overwrite /\ TwoLists) =>
        /\ err = "nil"
        /\ deep <= 2 * (NumNodes + 1) + 1

\* dst's and src's chains lead into each other and the call came back from
\* beyond the first pair of nodes.
CycleTerminationWitness ==
    /\ Done /\ ~overwrite /\ TwoLists /\ err = "nil"
    /\ srcArg.k = "struct" /\ srcArg.f.Next.a = 1
    /\ DstPre.f.Next.a = 2 /\ pre[2].f.Next.a = 1
    /\ OnCycle(pre, 1)
    /\ deep >= 4

TypesDiffer ==
    /\ dstArg.k = "ptr" /\ dstArg.a # 0
    /\ srcArg # NilV /\ ~(srcArg.k = "ptr" /\ srcArg.a = 0)
    /\ DstPre.t # SrcPre.t

\* C8 (type-mismatch rejection): a top-level call whose dst and src are of
\* different types returns ErrDifferentArgumentsTypes and leaves dst as it
\* was, whether dst points to a record or to a scalar.
TypeMismatchRejection ==
    (Done /\ TypesDiffer) => (err = "ErrDifferentArgumentsTypes" /\ heap = pre)

\* C8 as amended: the call returns ErrDifferentArgumentsTypes when dst
\* points to a record or a map and ErrNotSupported when it points to a
\* scalar, and leaves dst as it was in both cases.
TypeMismatchRejectionByKind ==
    (Done /\ TypesDiffer) =>
        /\ heap = pre
        /\ err = IF DstPre.k \in {"struct", "map"}
                 THEN "ErrDifferentArgumentsTypes" ELSE "ErrNotSupported"

\* Merge(&record, 2) was refused (TestDifferentTypes).
TypeMismatchRejectionWitness ==
    /\ Done /\ TypesDiffer
    /\ dstArg = PtrV("*simpleTest", 2) /\ srcArg = IntV(MaxVal)
    /\ err = "ErrDifferentArgumentsTypes" /\ heap = pre

\* The boxed field holds values of two dynamic types in dst and in src.
BoxedMismatch ==
    /\ DstPre.f.I.v # NilV /\ SrcPre.f.I.v # NilV
    /\ DstPre.f.I.v.t # SrcPre.f.I.v.t

\* What the fill law makes of field name of dst.
Filled(name) ==
    IF Empty(DstPre.f[name]) /\ ~Empty(SrcPre.f[name])
    THEN SrcPre.f[name] ELSE DstPre.f[name]

\* C11 (record-field mismatches are absorbed): past the top-level
\* validation a call returns no error, and under Merge a boxed field that
\* holds values of two dynamic types in dst and in src is left as it was
\* while every sibling field, before and after it, is merged.
RecordMismatchAbsorbed ==
    (Done /\ TwoOfAKind("struct") /\ DstPre.t = "boxedTest") =>
        /\ err = "nil"
        /\ (~overwrite /\ BoxedMismatch) =>
              /\ DstNow.f.I = DstPre.f.I
              /\ DstNow.f.Value = Filled("Value")
              /\ DstNow.f.ID = Filled("ID")

\* What holds instead: Merge returns the error of merge.go:59 exactly when
\* the boxed field holds two dynamic types, the fields before it are
\* merged and the fields after it are left as they were; every other call
\* returns no error.
RecordMismatchReturned ==
    (Done /\ TwoOfAKind("struct") /\ DstPre.t = "boxedTest") =>
        IF ~overwrite /\ BoxedMismatch
        THEN /\ err = "mismatch"
             /\ DstNow.f.I = DstPre.f.I
             /\ DstNow.f.Value = Filled("Value")
             /\ DstNow.f.ID = DstPre.f.ID
        ELSE err = "nil"

\* The nested merge for key x returns an error: both entries hold a value
\* and the two are of different dynamic types.
Failing(x) ==
    /\ x \in DOMAIN DstEntriesPre /\ x \in DOMAIN SrcEntriesPre
    /\ DstEntriesPre[x].v # NilV /\ SrcEntriesPre[x].v # NilV
    /\ DstEntriesPre[x].v.t # SrcEntriesPre[x].v.t

\* The nested merge for key x panics: dst holds a value and src holds nil.
Panicking(x) ==
    /\ x \in DOMAIN DstEntriesPre /\ x \in DOMAIN SrcEntriesPre
    /\ DstEntriesPre[x].v # NilV /\ SrcEntriesPre[x].v = NilV

\* The memory of the call had src's map lacked its failing keys, and what
\* the same call makes of it.
PreWithoutFailing ==
    [pre EXCEPT ![srcArg.a].m = [x \in {y \in DOMAIN @ : ~Failing(y)} |-> @[x]]]
WithoutFailing == merge(PreWithoutFailing, dstArg, srcArg, overwrite, keyOrder)

\* A Merge of two maps of boxed values, some key of which fails.
SomeKeyFails ==
    /\ Done /\ ~overwrite /\ TwoOfAKind("map") /\ DstPre.t = "mii"
    /\ DstPre.a # 0 /\ srcArg.a # 0
    /\ \E x \in Keys : Failing(x)

\* dst and everything but src's map is as the call without the failing
\* keys leaves it, and each failing key holds what it held.
Isolated ==
    /\ \A x \in Keys : Failing(x) => DstEntriesNow[x] = DstEntriesPre[x]
    /\ \A a \in DOMAIN heap \ {srcArg.a} : heap[a] = WithoutFailing.h[a]

\* C12 (map-entry failure isolation): under Merge on maps of boxed values,
\* when the nested merge for a key fails, dst keeps its entry for that key,
\* every other key of src is merged as if the failing key were absent, and
\* the call returns no error.
MapFailureIsolation == SomeKeyFails => (Isolated /\ err = "nil")

\* What holds: the same wherever no other key of dst holds a value against
\* a nil of src.
MapFailureIsolationApart ==
    (SomeKeyFails /\ \A x \in Keys : ~Panicking(x)) => (Isolated /\ err = "nil")

\* With such a key the call ends as the call without the failing keys does.
MapFailureIsolationOnly ==
    SomeKeyFails => (Isolated /\ err = WithoutFailing.err)

\* The same call on the same memory with MapKeys listing the keys in order o.
OtherRun(o) == merge(pre, dstArg, srcArg, overwrite, o)

\* The run made and the run in order o leave the same memory: dst's map
\* and every pointee.
SameOutcome(o) == \A a \in DOMAIN pre : OtherRun(o).h[a] = heap[a]

\* Two keys of dst hold the same non-nil pointer.
AliasedKeys ==
    \E x, y \in DOMAIN DstEntriesPre :
        /\ x # y /\ DstEntriesPre[x].k = "ptr"
        /\ DstEntriesPre[x].a # 0 /\ DstEntriesPre[x] = DstEntriesPre[y]

\* C13 (determinism and order independence): two Merge runs from the same
\* dst and src leave the same dst and pointees whatever the order src's
\* keys are iterated in, also when several keys of dst hold one pointer.
OrderIndependence ==
    (Done /\ ~overwrite /\ TwoOfAKind("map")) => \A o \in Orders : SameOutcome(o)

\* What holds: the runs that return leave the same memory when no two keys
\* of dst hold the same pointer, and every run ends the same way.
OrderIndependenceApart ==
    (Done /\ ~overwrite /\ TwoOfAKind("map")) =>
        \A o \in Orders :
            /\ OtherRun(o).err = err
            /\ (err = "nil" /\ ~AliasedKeys) => SameOutcome(o)

\* The map objects the entries of map object a hold.
Inner(h, a) == {h[a].m[x].v.a : x \in {y \in DOMAIN h[a].m : h[a].m[y].v.k = "map"}}

\* Map object a is reachable from itself through entries.
SelfContaining(h, a) ==
    \/ a \in Inner(h, a)
    \/ \E b \in Inner(h, a) : a \in Inner(h, b)

\* C14 (general cycle termination): every Merge or MergeWithOverwrite call
\* on finite inputs ends, also on maps that contain themselves as an entry,
\* in dst and in src: the recursion never exhausts the stack.
MapCycleTermination ==
    (Done /\ TwoOfAKind("map") /\ DstPre.t = "mii") => err # "overflow"

\* What holds: MergeWithOverwrite ends on every input, and Merge ends
\* whenever no map of the inputs is reachable from itself.
MapCycleTerminationApart ==
    (Done /\ TwoOfAKind("map") /\ DstPre.t = "mii"
       /\ (overwrite \/ \A a \in {3, 4} : ~SelfContaining(pre, a)))
    => err = "nil"

\* Merge of a map that holds itself under a key, with a src that holds
\* itself under the same key, never ends.
MapCycleOverflows ==
    (Done /\ ~overwrite /\ TwoOfAKind("map") /\ DstPre.t = "mii"
       /\ \E x \in Keys :
             /\ x \in DOMAIN DstEntriesPre /\ x \in DOMAIN SrcEntriesPre
             /\ DstEntriesPre[x] = IfaceV(MapV("mii", 3))
             /\ SrcEntriesPre[x] = IfaceV(MapV("mii", 4)))
    => err = "overflow"

====
